---- MODULE Spec2Model ----
(***************************************************************************)
(* pico-bitcoin-wallet: the chain scan (scan), the transaction builder     *)
(* (send) and balance of src/pico-bitcoin-wallet/src/main.rs, run against  *)
(* a node (bitcoind RPC) and the ledger store (module db).                 *)
(*                                                                         *)
(* One command runs at a time (the tool is a synchronous batch program).   *)
(* A command is a sequence of steps, one per call to the node or to the    *)
(* store, so that a failure or a crash can fall between any two of them.   *)
(***************************************************************************)
EXTENDS Integers, Sequences, FiniteSets, TLC

\* ------------------------------------------------------------- bounds
\* Highest block height the chain grows to.
MaxHeight == 2

\* ---------------------------------------------------------- constants
\* Length in bytes of a P2TR script_pubkey (OP_1 PUSH32 <key>).
P2TR_LEN == 34
\* FeeRate::BROADCAST_MIN, in satoshi per 1000 weight units (1 sat/vB).
BROADCAST_MIN == 250

\* The wallet's only script: get_address()?.script_pubkey().
script_pubkey == "p2tr:wallet"
\* Scripts of other parties: the payee of a send, another miner.
PayeeScripts == {"p2tr:payee"}
Scripts == {script_pubkey} \cup PayeeScripts

\* script_pubkey.len(): every script here is P2TR.
ScriptLen(s) == P2TR_LEN

\* Amounts a user asks send to pay, in satoshi: zero, an ordinary amount, and
\* the amounts around the insufficient-funds boundary of a 1000 sat output.
Amounts == {0, 500, 846, 847}

\* ------------------------------------------------------------- state
VARIABLES
    chain,          \* node: chain[h] is the block at height h, a sequence of transactions
    mempool,        \* node: transactions accepted by send_raw_transaction, not mined yet, in order
    txos,           \* db: rows (out_point, value, spent), in insertion order
    last_height,    \* db: the scan watermark
    pc,             \* position of the running command: "idle", "scan", "mark", "done"
    cmd,            \* the running or last command: "none", "scan", "send"
    result,         \* its outcome: "running", "ok" or the error it returned
    current_height, \* scan: the block count read at the start of the scan
    height,         \* scan: the next height the iterator fetches
    pending,        \* scan: matching outputs of the fetched block, not yet stored
    rows,           \* scan: the rows as store_txos sees them (its writes included)
    atomic,         \* scan: store_txos commits rows and watermark together
    failed,         \* scan: the height whose retrieval failed (0: none)
    fetched,        \* scan: the heights whose block the iterator has fetched, in order
    address,        \* send: the script of the address argument
    amount,         \* send: the amount argument
    fee,            \* send: the fee computed (0 when send stops before computing it)
    transaction,    \* send: the transaction built (NoTx when send stops before building it)
    todo,           \* send: inputs of the broadcast transaction not yet marked spent
    total,          \* balance: the total printed
    txos0,          \* txos when the running command started
    last_height0    \* last_height when the running command started

vars == <<chain, mempool, txos, last_height, pc, cmd, result, current_height, height,
          pending, rows, atomic, failed, fetched, address, amount, fee, transaction, todo, total,
          txos0, last_height0>>

nodeVars == <<chain, mempool>>
scanVars == <<current_height, height, pending, rows, atomic, failed, fetched>>
sendVars == <<address, amount, fee, transaction, todo>>

\* ------------------------------------------------------- sequences
RECURSIVE SumSeq(_)
SumSeq(s) == IF s = <<>> THEN 0 ELSE Head(s) + SumSeq(Tail(s))

RECURSIVE Concat(_)
Concat(ss) == IF ss = <<>> THEN <<>> ELSE Head(ss) \o Concat(Tail(ss))

Range(s) == {s[i] : i \in DOMAIN s}

\* ----------------------------------------------------- transactions
NoTx == [input |-> <<>>, output |-> <<>>, lock_time |-> 0]

\* transaction.txid(): the hash of the transaction without its witnesses,
\* modelled by that content itself (equal content, equal txid).
Txid(tx) ==
    [input |-> [i \in DOMAIN tx.input |-> tx.input[i].previous_output],
     output |-> tx.output,
     lock_time |-> tx.lock_time]

\* A coinbase transaction: no spendable input; its content is unique per
\* height (the height it commits to is kept in lock_time here).
Coinbase(h, outs) == [input |-> <<>>, output |-> outs, lock_time |-> h]

\* The coinbase outputs a mined block may carry: a block mined to the
\* wallet's address, or to someone else's.
CoinbaseOutputs ==
    {<<[script_pubkey |-> script_pubkey, value |-> 1000]>>,
     <<[script_pubkey |-> "p2tr:payee", value |-> 5000]>>}

\* Every transaction the node has accepted: mined or in the mempool.
ChainTxs == UNION {Range(chain[h]) : h \in DOMAIN chain}
AcceptedTxs == ChainTxs \cup Range(mempool)

Inputs(tx) == {tx.input[i].previous_output : i \in DOMAIN tx.input}

\* The node refuses a transaction it already has and one that spends an
\* outpoint another accepted transaction spends.
Conflicts(tx) ==
    \E t \in AcceptedTxs : Txid(t) = Txid(tx) \/ Inputs(t) \cap Inputs(tx) # {}

\* --------------------------------------------------------- ledger (db)
Known(L, op) == \E i \in DOMAIN L : L[i].out_point = op

\* Upsert gone wrong: a plain insert, a row per scanned output.
UpsertAppend(L, op, v) ==
    Append(L, [out_point |-> op, value |-> v, spent |-> FALSE])

\* Upsert gone wrong: insert-or-replace, the row is written anew.
UpsertReplace(L, op, v) ==
    IF Known(L, op)
    THEN [i \in DOMAIN L |->
            IF L[i].out_point = op
            THEN [out_point |-> op, value |-> v, spent |-> FALSE]
            ELSE L[i]]
    ELSE Append(L, [out_point |-> op, value |-> v, spent |-> FALSE])

\* db upsert of one scanned output: a recorded outpoint is left as it is.
Upsert(L, op, v) ==
    IF Known(L, op) THEN L
    ELSE Append(L, [out_point |-> op, value |-> v, spent |-> FALSE])

\* SetSpent gone wrong: an outpoint that is not recorded gets a row, marked
\* spent.
SetSpentInsert(L, op) ==
    IF Known(L, op)
    THEN [i \in DOMAIN L |->
            IF L[i].out_point = op THEN [L[i] EXCEPT !.spent = TRUE] ELSE L[i]]
    ELSE Append(L, [out_point |-> op, value |-> 0, spent |-> TRUE])

\* db.set_spent: what it returns, NotFound for an outpoint that is not
\* recorded.
SetSpentResult(L, op) == IF Known(L, op) THEN "ok" ELSE "NotFound"

\* db.set_spent: the rows it leaves; the row of the outpoint is marked spent.
SetSpent(L, op) ==
    [i \in DOMAIN L |-> IF L[i].out_point = op THEN [L[i] EXCEPT !.spent = TRUE] ELSE L[i]]

\* db.iter_unspent(): the rows whose spent flag is false, in row order.
IterUnspent(L) == SelectSeq(L, LAMBDA r : ~r.spent)

\* ------------------------------------------------------------ balance
\* Balance gone wrong: "total = amt", the value of the last unspent row.
BalanceLast(L) ==
    LET unspent == IterUnspent(L)
    IN IF unspent = <<>> THEN 0 ELSE unspent[Len(unspent)].value

\* balance, lines 255-266: total += amt over db.iter_unspent().
Balance(L) ==
    LET unspent == IterUnspent(L)
    IN SumSeq([i \in DOMAIN unspent |-> unspent[i].value])

\* --------------------------------------------------------------- scan
\* TxItems gone wrong: enumerate after the filter, vout counts the matching
\* outputs alone.
TxItemsFilterFirst(tx) ==
    LET own == SelectSeq(tx.output, LAMBDA x : x.script_pubkey = script_pubkey)
    IN [i \in DOMAIN own |->
          [out_point |-> [txid |-> Txid(tx), vout |-> i - 1], value |-> own[i].value]]

\* The outputs of one transaction that pay script_pubkey, as
\* (out_point, value), in output order; vout counts from 0.
TxItems(tx) ==
    LET all == [i \in DOMAIN tx.output |->
                   [out_point |-> [txid |-> Txid(tx), vout |-> i - 1],
                    value |-> tx.output[i].value,
                    script |-> tx.output[i].script_pubkey]]
        own == SelectSeq(all, LAMBDA x : x.script = script_pubkey)
    IN [i \in DOMAIN own |-> [out_point |-> own[i].out_point, value |-> own[i].value]]

BlockItems(block) == Concat([i \in DOMAIN block |-> TxItems(block[i])])

\* --------------------------------------------------------------- send
\* VarInt(n).len() for the sizes that occur.
VarIntLen(n) == IF n < 253 THEN 1 ELSE 3

\* PredictWeight gone wrong: the weight of the inputs alone.
PredictWeightInputsOnly(n, lens) == n * (4 * (32 + 4 + 4 + 1) + 66)

\* transaction::predict_weight for n inputs, each predicted by
\* InputWeightPrediction::from_slice(0, &[64]), and the given output script
\* lengths.
PredictWeight(n, lens) ==
    LET script_size == 0 + VarIntLen(0)
        witness_size == VarIntLen(1) + (64 + VarIntLen(64))
        partial_input_weight == n * (script_size * 4 + witness_size)
        inputs_with_witnesses == n
        output_count == Len(lens)
        output_scripts_size == SumSeq([i \in DOMAIN lens |-> lens[i] + VarIntLen(lens[i])])
        input_weight == partial_input_weight + n * 4 * (32 + 4 + 4)
        output_size == 8 * output_count + output_scripts_size
        non_input_size == 4 + VarIntLen(n) + VarIntLen(output_count) + output_size + 4
    IN IF inputs_with_witnesses = 0
       THEN non_input_size * 4 + input_weight
       ELSE non_input_size * 4 + input_weight + n - inputs_with_witnesses + 2

\* weight * FeeRate::BROADCAST_MIN, rounded up to a whole satoshi.
Fee(weight) == (BROADCAST_MIN * weight + 999) \div 1000

\* TxIns gone wrong: coin selection, the first unspent row alone.
TxInsFirst(L) ==
    LET unspent == IterUnspent(L)
    IN IF unspent = <<>> THEN <<>>
       ELSE <<[previous_output |-> unspent[1].out_point,
               sequence |-> "ENABLE_RBF_NO_LOCKTIME",
               witness |-> <<>>]>>

\* send, lines 181-198: one input and one previous output per unspent row.
TxIns(L) ==
    LET unspent == IterUnspent(L)
    IN [i \in DOMAIN unspent |->
          [previous_output |-> unspent[i].out_point,
           sequence |-> "ENABLE_RBF_NO_LOCKTIME",
           witness |-> <<>>]]

Prevouts(L) ==
    LET unspent == IterUnspent(L)
    IN [i \in DOMAIN unspent |->
          [script_pubkey |-> script_pubkey, value |-> unspent[i].value]]

\* send, lines 199-202.
TotalAmt(prevouts) == SumSeq([i \in DOMAIN prevouts |-> prevouts[i].value])

\* send, lines 206-214.
SendFee(txins, payee_script_pubkey) ==
    Fee(PredictWeight(Len(txins), <<ScriptLen(payee_script_pubkey), ScriptLen(script_pubkey)>>))

\* EnoughMoney gone wrong: the fee is not checked against what remains.
EnoughMoneyNoFee(total_amt, amt, f) == total_amt >= amt

\* send, lines 203-205 and 215-217: the two checked_sub succeed.
EnoughMoney(total_amt, amt, f) == total_amt >= amt /\ total_amt - amt >= f

\* ChangeAmount gone wrong: the fee is not taken off the change.
ChangeAmountNoFee(total_amt, amt, f) == total_amt - amt

\* send, lines 203 and 215: remaining, then change_amount.
ChangeAmount(total_amt, amt, f) == (total_amt - amt) - f

\* BuildTransaction gone wrong: a change of 0 gets no output.
BuildTransactionNoZeroChange(txins, payee_script_pubkey, amt, change_amount) ==
    LET payment == [script_pubkey |-> payee_script_pubkey, value |-> amt]
        change == [script_pubkey |-> script_pubkey, value |-> change_amount]
    IN [input |-> txins,
        output |-> IF change_amount = 0 THEN <<payment>> ELSE <<payment, change>>,
        lock_time |-> 0]

\* send, lines 218-231.
BuildTransaction(txins, payee_script_pubkey, amt, change_amount) ==
    LET payment == [script_pubkey |-> payee_script_pubkey, value |-> amt]
        change == [script_pubkey |-> script_pubkey, value |-> change_amount]
    IN [input |-> txins, output |-> <<payment, change>>, lock_time |-> 0]

\* SignTransaction gone wrong: the first input alone is signed.
SignTransactionFirst(tx, prevouts) ==
    [tx EXCEPT !.input =
        [i \in DOMAIN tx.input |->
            [tx.input[i] EXCEPT !.witness =
                IF i = 1 THEN <<[signs |-> 0, prevouts |-> prevouts]>> ELSE <<>>]]]

\* send, lines 232-244: every input gets the signature over its sighash,
\* which commits to the input's index and to all previous outputs.
SignTransaction(tx, prevouts) ==
    [tx EXCEPT !.input =
        [i \in DOMAIN tx.input |->
            [tx.input[i] EXCEPT !.witness =
                <<[signs |-> i - 1, prevouts |-> prevouts]>>]]]

\* The signed transaction send builds from ledger L.
SendTransaction(L, payee_script_pubkey, amt) ==
    LET txins == TxIns(L)
        prevouts == Prevouts(L)
        f == SendFee(txins, payee_script_pubkey)
        change_amount == ChangeAmount(TotalAmt(prevouts), amt, f)
    IN SignTransaction(BuildTransaction(txins, payee_script_pubkey, amt, change_amount),
                       prevouts)

\* A command returns with outcome r; the process is about to exit.
Finish(r) ==
    /\ pc' = "done"
    /\ result' = r

\* InRange gone wrong: the range stops before current_height ("..").
InRangeExclusive(h, current) == h < current

\* scan, line 90: the range goes up to current_height inclusive ("..=").
InRange(h, current) == h <= current

\* FirstHeight gone wrong: the range starts one height too far.
FirstHeightSkip(last) == last + 2

\* scan, line 90: the first height of the range.
FirstHeight(last) == last + 1

\* ScanError gone wrong: filter_map drops the error item and the iterator
\* goes on with the next height.
ScanErrorDropped(e) ==
    /\ height' = height + 1
    /\ UNCHANGED <<pc, result>>

\* scan, lines 105, 119, 135 and 137: the error of a failed retrieval is the
\* iterator's next item; store_txos returns it and scan returns it.
ScanError(e) ==
    /\ Finish(e)
    /\ UNCHANGED height

Init ==
    /\ chain = <<>>
    /\ mempool = <<>>
    /\ txos = <<>>
    /\ last_height = 0
    /\ pc = "idle"
    /\ cmd = "none"
    /\ result = "ok"
    /\ current_height = 0
    /\ height = 0
    /\ pending = <<>>
    /\ rows = <<>>
    /\ atomic = FALSE
    /\ failed = 0
    /\ fetched = <<>>
    /\ address = script_pubkey
    /\ amount = 0
    /\ fee = 0
    /\ transaction = NoTx
    /\ todo = <<>>
    /\ total = 0
    /\ txos0 = <<>>
    /\ last_height0 = 0

\* A command starts: it opens the ledger as it is.
Start(c) ==
    /\ pc = "idle"
    /\ cmd' = c
    /\ txos0' = txos
    /\ last_height0' = last_height

\* The process is gone: nothing of it is left but the ledger.
Gone ==
    /\ pc' = "idle"
    /\ cmd' = "none"
    /\ result' = "ok"
    /\ current_height' = 0
    /\ height' = 0
    /\ pending' = <<>>
    /\ rows' = <<>>
    /\ atomic' = FALSE
    /\ failed' = 0
    /\ fetched' = <<>>
    /\ address' = script_pubkey
    /\ amount' = 0
    /\ fee' = 0
    /\ transaction' = NoTx
    /\ todo' = <<>>
    /\ total' = 0
    /\ txos0' = <<>>
    /\ last_height0' = 0
    /\ UNCHANGED <<nodeVars, txos, last_height>>

\* The process exits after its command has returned.
Exit ==
    /\ pc = "done"
    /\ Gone

\* The node mines a block: a coinbase and the transactions of the mempool.
\* (Taken between commands: a running command reads only the blocks up to
\* the height it read at its start, so a block mined meanwhile changes
\* nothing it sees.)
MineBlock ==
    /\ pc = "idle"
    /\ Len(chain) < MaxHeight
    /\ \E outs \in CoinbaseOutputs :
         chain' = Append(chain, <<Coinbase(Len(chain) + 1, outs)>> \o mempool)
    /\ mempool' = <<>>
    /\ UNCHANGED <<total, txos, last_height, pc, cmd, result, scanVars, sendVars, txos0,
                   last_height0>>

\* scan, lines 75-89: read the block count and the watermark. The node may
\* report any height up to its tip (a node still syncing, another node).
\* The store either writes each row through or keeps the rows of the
\* running store_txos back until it commits them with the watermark.
ScanStart ==
    /\ Start("scan")
    /\ current_height' \in 0..Len(chain)
    /\ height' = FirstHeight(last_height)
    /\ pending' = <<>>
    /\ rows' = txos
    /\ atomic' \in BOOLEAN
    /\ fetched' = <<>>
    /\ pc' = "scan"
    /\ result' = "running"
    /\ UNCHANGED <<total, nodeVars, txos, last_height, failed, sendVars>>

\* scan, lines 78-80: get_block_count fails.
ScanStartFail ==
    /\ Start("scan")
    /\ Finish("Failed to get block count")
    /\ UNCHANGED <<total, nodeVars, txos, last_height, scanVars, sendVars>>

\* scan, lines 90-136: the iterator has no item left of the blocks fetched so
\* far and fetches the next height; the block's matching outputs are the
\* items store_txos takes next.
ScanFetch ==
    /\ pc = "scan"
    /\ pending = <<>>
    /\ InRange(height, current_height)
    /\ pending' = BlockItems(chain[height])
    /\ fetched' = Append(fetched, height)
    /\ height' = height + 1
    /\ UNCHANGED <<total, nodeVars, txos, last_height, pc, cmd, result, current_height, rows,
                   atomic, failed, sendVars, txos0, last_height0>>

\* scan, lines 92-106 and 119, 135: get_block_hash or get_block fails (both
\* carry the context "Failed to get block hash"); the error is the
\* iterator's next item and store_txos returns it.
ScanFetchFail ==
    /\ pc = "scan"
    /\ pending = <<>>
    /\ InRange(height, current_height)
    /\ failed' = height
    /\ ScanError("Failed to get block hash")
    /\ UNCHANGED <<total, nodeVars, txos, last_height, cmd, current_height, pending, rows, atomic,
                   fetched, sendVars, txos0, last_height0>>

\* store_txos takes the next item and upserts it.
ScanStore ==
    /\ pc = "scan"
    /\ pending # <<>>
    /\ rows' = Upsert(rows, Head(pending).out_point, Head(pending).value)
    /\ txos' = IF atomic THEN txos ELSE rows'
    /\ pending' = Tail(pending)
    /\ UNCHANGED <<total, nodeVars, last_height, pc, cmd, result, current_height, height, atomic,
                   failed, fetched, sendVars, txos0, last_height0>>

\* ScanCommit gone wrong: the scan reconciles, it marks spent every row an
\* input of a fetched transaction refers to.
ScanCommitReconcile ==
    /\ pc = "scan"
    /\ pending = <<>>
    /\ ~InRange(height, current_height)
    /\ LET seen == UNION {Inputs(t) : t \in UNION {Range(chain[fetched[k]]) : k \in DOMAIN fetched}}
       IN txos' = [i \in DOMAIN rows |->
                     IF rows[i].out_point \in seen
                     THEN [rows[i] EXCEPT !.spent = TRUE]
                     ELSE rows[i]]
    /\ last_height' = current_height
    /\ Finish("ok")
    /\ UNCHANGED <<total, nodeVars, cmd, scanVars, sendVars, txos0, last_height0>>

\* scan, line 137: the iterator is exhausted; store_txos writes the height
\* it was given, commits, and scan returns Ok.
ScanCommit ==
    /\ pc = "scan"
    /\ pending = <<>>
    /\ ~InRange(height, current_height)
    /\ txos' = rows
    /\ last_height' = current_height
    /\ Finish("ok")
    /\ UNCHANGED <<total, nodeVars, cmd, scanVars, sendVars, txos0, last_height0>>

\* The process dies in the middle of a scan.
ScanCrash ==
    /\ pc = "scan"
    /\ Gone

\* send, lines 158-169: an argument is missing or does not parse.
SendInvalid ==
    /\ Start("send")
    /\ \E e \in {"invalid bitcoin address", "invalid amount"} : Finish(e)
    /\ UNCHANGED <<total, nodeVars, txos, last_height, scanVars, sendVars>>

\* send, lines 181-217: a checked_sub fails.
SendNotEnough ==
    /\ Start("send")
    /\ \E payee \in PayeeScripts, amt \in Amounts :
         LET txins == TxIns(txos)
             total_amt == TotalAmt(Prevouts(txos))
             f == SendFee(txins, payee)
         IN /\ ~EnoughMoney(total_amt, amt, f)
            /\ address' = payee
            /\ amount' = amt
            /\ fee' = IF total_amt >= amt THEN f ELSE 0
    /\ Finish("not enough money")
    /\ UNCHANGED <<total, nodeVars, txos, last_height, scanVars, transaction, todo>>

\* AfterBroadcast gone wrong: the result of send_raw_transaction is not
\* looked at and the inputs are marked spent in either case.
AfterBroadcastIgnored(accepted, tx) ==
    /\ todo' = [i \in DOMAIN tx.input |-> tx.input[i].previous_output]
    /\ IF tx.input = <<>>
       THEN Finish("ok")
       ELSE pc' = "mark" /\ result' = "running"

\* send, lines 245-251: a rejected broadcast is returned as the error of
\* send; after an accepted one the inputs are marked spent one by one.
AfterBroadcast(accepted, tx) ==
    IF accepted
    THEN /\ todo' = [i \in DOMAIN tx.input |-> tx.input[i].previous_output]
         /\ IF tx.input = <<>>
            THEN Finish("ok")
            ELSE pc' = "mark" /\ result' = "running"
    ELSE /\ todo' = <<>>
         /\ Finish("failed to broadcast transaction")

\* SendBroadcast gone wrong: send records the change output of the accepted
\* transaction as a row of the ledger.
SendBroadcastRecordsChange(accepted) ==
    /\ Start("send")
    /\ \E payee \in PayeeScripts, amt \in Amounts :
         LET txins == TxIns(txos)
             total_amt == TotalAmt(Prevouts(txos))
             f == SendFee(txins, payee)
             tx == SendTransaction(txos, payee, amt)
         IN /\ EnoughMoney(total_amt, amt, f)
            /\ accepted => ~Conflicts(tx)
            /\ address' = payee
            /\ amount' = amt
            /\ fee' = f
            /\ transaction' = tx
            /\ mempool' = IF accepted THEN Append(mempool, tx) ELSE mempool
            /\ txos' = IF accepted
                       THEN Upsert(txos, [txid |-> Txid(tx), vout |-> 1], tx.output[2].value)
                       ELSE txos
            /\ AfterBroadcast(accepted, tx)
    /\ UNCHANGED <<total, chain, last_height, scanVars>>

\* send, lines 181-247: the transaction is built and signed;
\* send_raw_transaction answers accept (TRUE) or reject (FALSE).
SendBroadcast(accepted) ==
    /\ Start("send")
    /\ \E payee \in PayeeScripts, amt \in Amounts :
         LET txins == TxIns(txos)
             total_amt == TotalAmt(Prevouts(txos))
             f == SendFee(txins, payee)
             tx == SendTransaction(txos, payee, amt)
         IN /\ EnoughMoney(total_amt, amt, f)
            /\ accepted => ~Conflicts(tx)
            /\ address' = payee
            /\ amount' = amt
            /\ fee' = f
            /\ transaction' = tx
            /\ mempool' = IF accepted THEN Append(mempool, tx) ELSE mempool
            /\ AfterBroadcast(accepted, tx)
    /\ UNCHANGED <<total, chain, txos, last_height, scanVars>>

SendAccepted == SendBroadcast(TRUE)
SendRejected == SendBroadcast(FALSE)

\* send, lines 248-251: db.set_spent on the next input; after the last one
\* send returns Ok.
SendMark ==
    /\ pc = "mark"
    /\ todo # <<>>
    /\ SetSpentResult(txos, Head(todo)) = "ok"
    /\ txos' = SetSpent(txos, Head(todo))
    /\ todo' = Tail(todo)
    /\ IF Tail(todo) = <<>>
       THEN Finish("ok")
       ELSE UNCHANGED <<pc, result>>
    /\ UNCHANGED <<total, nodeVars, last_height, cmd, scanVars, address, amount, fee, transaction,
                   txos0, last_height0>>

\* send, line 249: db.set_spent returns an error and send returns it.
SendMarkFail ==
    /\ pc = "mark"
    /\ todo # <<>>
    /\ \E e \in {"storage error", SetSpentResult(txos, Head(todo))} \ {"ok"} : Finish(e)
    /\ UNCHANGED <<total, nodeVars, txos, last_height, cmd, scanVars, sendVars, txos0, last_height0>>

\* The process dies after the broadcast and before the last set_spent.
SendCrash ==
    /\ pc = "mark"
    /\ Gone

\* The balance command: it prints the total and returns.
BalanceRun ==
    /\ Start("balance")
    /\ total' = Balance(txos)
    /\ Finish("ok")
    /\ UNCHANGED <<nodeVars, txos, last_height, scanVars, sendVars>>

Next ==
    \/ MineBlock
    \/ ScanStart
    \/ ScanStartFail
    \/ ScanFetch
    \/ ScanFetchFail
    \/ ScanStore
    \/ ScanCommit
    \/ ScanCrash
    \/ SendInvalid
    \/ SendNotEnough
    \/ SendAccepted
    \/ SendRejected
    \/ SendMark
    \/ SendMarkFail
    \/ SendCrash
    \/ BalanceRun
    \/ Exit

Spec == Init /\ [][Next]_vars

\* ------------------------------------------------------------- claims
Done(c) == pc = "done" /\ cmd = c

\* The outputs of block h that pay the wallet's script, read off the chain.
OwnedAt(h) ==
    UNION {{[out_point |-> [txid |-> Txid(chain[h][k]), vout |-> i - 1],
             value |-> chain[h][k].output[i].value] :
               i \in {n \in DOMAIN chain[h][k].output :
                         chain[h][k].output[n].script_pubkey = script_pubkey}} :
           k \in DOMAIN chain[h]}

Recorded(L, o) == \E i \in DOMAIN L : L[i].out_point = o.out_point /\ L[i].value = o.value

\* The heights a finished scan went over.
Scanned == (last_height0 + 1)..current_height

\* A finished scan went over heights whose owned outputs were all in the
\* ledger when it started.
IsRescan ==
    /\ Done("scan") /\ result = "ok"
    /\ \A h \in Scanned : \A o \in OwnedAt(h) : Recorded(txos0, o)

\* C1: a scan over heights that were scanned before leaves the ledger as it
\* was: the same rows, the same balance, and no outpoint is in two rows.
C1_IdempotentRescan ==
    /\ \A i, j \in DOMAIN txos : txos[i].out_point = txos[j].out_point => i = j
    /\ IsRescan => txos = txos0 /\ Balance(txos) = Balance(txos0)

\* A re-scan over at least one owned output has finished.
C1_Witness == IsRescan /\ \E h \in Scanned : OwnedAt(h) # {}

\* C2: after a scan that succeeds the watermark is at least what it was
\* before the scan.
C2_WatermarkMonotone ==
    (Done("scan") /\ result = "ok") => last_height >= last_height0

WalletTxs == {t \in AcceptedTxs : t.input # <<>>}

\* The rows that are not spent, as a set.
Unspent(L) == {L[i] : i \in {n \in DOMAIN L : ~L[n].spent}}

Outpoints(L) == {L[i].out_point : i \in DOMAIN L}

\* The change output of a transaction of the wallet, as a scan records it.
ChangeOf(t) == [out_point |-> [txid |-> Txid(t), vout |-> 1], value |-> t.output[2].value]

\* The sum of the ledger values of the outputs a transaction spends.
RECURSIVE InputValue(_, _)
InputValue(L, ops) ==
    IF ops = {} THEN 0
    ELSE LET op == CHOOSE x \in ops : TRUE
             row == CHOOSE r \in Range(L) : r.out_point = op
         IN row.value + InputValue(L, ops \ {op})

\* C4, as the spec states it: after a successful send to another script the
\* balance is B - amount - F, every output unspent before is spent, and the
\* one unspent output of the ledger is the change.
C4_SpendConservation ==
    (Done("send") /\ result = "ok" /\ address # script_pubkey /\ amount > 0) =>
        /\ Balance(txos) = Balance(txos0) - amount - fee
        /\ \A r \in Unspent(txos0) : r \notin Unspent(txos)
        /\ Cardinality(Unspent(txos)) = 1

\* C4, amended: after a successful send every output unspent before is spent
\* and send has added no row, so the balance is 0; the change output of the
\* transaction is worth B - amount - F, and it is a row of the ledger once a
\* scan has gone over the block the transaction is mined in.
C4_SpendThenScan ==
    /\ (Done("send") /\ result = "ok") =>
          /\ \A r \in Unspent(txos0) : [r EXCEPT !.spent = TRUE] \in Range(txos)
          /\ Outpoints(txos) = Outpoints(txos0)
          /\ Balance(txos) = 0
          /\ transaction \in AcceptedTxs
          /\ transaction.output[2] =
                [script_pubkey |-> script_pubkey,
                 value |-> Balance(txos0) - amount - fee]
    /\ \A h \in 1..last_height : \A t \in Range(chain[h]) \cap WalletTxs :
          /\ Recorded(txos, ChangeOf(t))
          /\ ChangeOf(t).value =
                InputValue(txos, Inputs(t)) - t.output[1].value
                - SendFee(t.input, t.output[1].script_pubkey)

\* A send with change has succeeded, and the change of an earlier send, mined
\* and scanned, is an input of it.
C4_Witness ==
    /\ Done("send") /\ result = "ok"
    /\ transaction.output[2].value > 0
    /\ \E h \in 1..last_height : \E t \in Range(chain[h]) \cap WalletTxs :
          ChangeOf(t).out_point \in Inputs(transaction)

\* What send needs is more than the unspent outputs hold.
Insufficient(L, payee, amt) ==
    LET total_amt == Balance(L)
        f == SendFee(TxIns(L), payee)
    IN total_amt < amt \/ total_amt - amt < f

\* C5: a send of an amount that, with the fee, is more than the unspent
\* total fails with the insufficient-funds error, broadcasts nothing and
\* leaves rows, spent flags and watermark as they were.
C5_InsufficientFunds ==
    [][(/\ pc = "idle" /\ cmd' = "send"
        /\ result' \notin {"invalid bitcoin address", "invalid amount"}
        /\ Insufficient(txos, address', amount'))
       => (/\ pc' = "done"
           /\ result' = "not enough money"
           /\ mempool' = mempool
           /\ txos' = txos
           /\ last_height' = last_height)]_vars

\* A send failed for the fee alone: the unspent total covers the amount.
C5_Witness ==
    /\ Done("send") /\ result = "not enough money"
    /\ Balance(txos0) >= amount /\ amount > 0

\* C6: a row is marked spent only as an input of the transaction of the
\* running send, once the node has accepted it; a rejected broadcast makes
\* send fail with every row, flag and unspent output as before.
C6_BroadcastBeforeMark ==
    [][/\ \A i \in DOMAIN txos' :
            (txos'[i].spent /\ (i \notin DOMAIN txos \/ ~txos[i].spent)) =>
                /\ cmd = "send"
                /\ transaction \in AcceptedTxs
                /\ txos'[i].out_point \in Inputs(transaction)
       /\ (pc = "idle" /\ cmd' = "send" /\ transaction' # NoTx
              /\ mempool' = mempool) =>
                /\ pc' = "done"
                /\ result' = "failed to broadcast transaction"
                /\ txos' = txos
                /\ IterUnspent(txos') = IterUnspent(txos)]_vars

\* A broadcast was rejected for a reason of the node's own (no other
\* transaction spends the inputs), and the outputs are still unspent.
C6_Witness ==
    /\ Done("send") /\ result = "failed to broadcast transaction"
    /\ ~Conflicts(transaction)
    /\ IterUnspent(txos) # <<>>

\* C7: a send that returns an error leaves the rows and every spent flag as
\* they were before the call.
C7_FailedSendUnchanged ==
    (Done("send") /\ result # "ok") => txos = txos0

\* C8: a send of amount 0 is rejected: no transaction is built or broadcast
\* and no row is marked spent.
C8_ZeroAmountRejected ==
    (cmd = "send" /\ amount = 0) =>
        /\ pc = "done" /\ result # "ok"
        /\ transaction = NoTx
        /\ txos = txos0

\* C9: every output of a block at a height from 1 to the watermark that
\* pays the wallet's script is a row of the ledger.
C9_NoSkippedHeight ==
    /\ last_height <= Len(chain)
    /\ \A h \in 1..last_height : \A o \in OwnedAt(h) : Recorded(txos, o)

\* A scan that writes its rows through is under way above a watermark that
\* already covers owned outputs.
C9_Witness ==
    /\ pc = "scan" /\ ~atomic /\ Len(txos) > Len(txos0)
    /\ \E h \in 1..last_height : OwnedAt(h) # {}

\* C10: a row stays in the ledger, and a row that is spent stays spent.
C10_SpentOneWay ==
    [][\A i \in DOMAIN txos :
          /\ i \in DOMAIN txos'
          /\ txos'[i].out_point = txos[i].out_point
          /\ txos'[i].value = txos[i].value
          /\ txos[i].spent => txos'[i].spent]_vars

\* A scan has gone again over a block whose owned output is recorded and
\* spent, and has stored what it found.
C10_Witness ==
    /\ pc = "scan" /\ pending = <<>>
    /\ \E h \in (last_height0 + 1)..(height - 1) : \E o \in OwnedAt(h) :
          \E i \in DOMAIN txos : txos[i].out_point = o.out_point /\ txos[i].spent

\* The amounts of the sign-taproot example: one unspent output, the payment,
\* the change, and the fee the change leaves ("1000 sat fee").
DUMMY_UTXO_AMOUNT == 20000000
SPEND_AMOUNT == 5000000
CHANGE_AMOUNT == 14999000
EXAMPLE_FEE == 1000

\* The ledger of the example: the one dummy unspent output.
DummyLedger ==
    <<[out_point |-> [txid |-> "all_zeros", vout |-> 0],
       value |-> DUMMY_UTXO_AMOUNT, spent |-> FALSE]>>

\* The transaction built from the example's ledger for the example's
\* payment and fee.
ExampleTransaction ==
    BuildTransaction(TxIns(DummyLedger), "p2tr:payee", SPEND_AMOUNT,
                     ChangeAmount(TotalAmt(Prevouts(DummyLedger)), SPEND_AMOUNT, EXAMPLE_FEE))

C12_ConsumesAll ==
    /\ (cmd = "send" /\ transaction # NoTx) =>
          /\ Inputs(transaction) = {r.out_point : r \in Unspent(txos0)}
          /\ Len(transaction.input) = Cardinality(Unspent(txos0))
          /\ \A i, j \in DOMAIN transaction.input :
                transaction.input[i].previous_output = transaction.input[j].previous_output
                    => i = j
    /\ (Done("send") /\ result = "ok") =>
          /\ \A r \in Unspent(txos0) : \A i \in DOMAIN txos :
                txos[i].out_point = r.out_point => txos[i].spent
          /\ Unspent(txos) \cap Unspent(txos0) = {}

\* A send that found two unspent outputs has succeeded.
C12_Witness ==
    /\ Done("send") /\ result = "ok"
    /\ Cardinality(Unspent(txos0)) = 2
    /\ amount > 0

\* The heights from a + 1 to b, ascending.
Heights(a, b) == [i \in 1..(b - a) |-> a + i]

\* C13: after a scan that succeeds the watermark is the height the node
\* reported at the start of the scan, and the scan has fetched the heights
\* from the watermark before it, plus one, to that height, each once and in
\* ascending order.
C13_WatermarkIsBest ==
    /\ (Done("scan") /\ result = "ok") =>
          /\ last_height = current_height
          /\ fetched = Heights(last_height0, current_height)
    /\ pc = "scan" => \E n \in 0..Len(chain) : fetched = Heights(last_height0, last_height0 + n)

\* A scan over two heights has succeeded.
C13_Witness ==
    /\ Done("scan") /\ result = "ok"
    /\ current_height = last_height0 + 2
    /\ rows # txos0

\* The sum of the values of the unspent rows of a ledger, row by row over
\* the set of their outpoints.
UnspentValue(L) == InputValue(L, {r.out_point : r \in Unspent(L)})

\* C14: for every ledger a command can find (the ledger between two
\* commands) the balance is the sum of the values of the unspent outputs,
\* and what the balance command prints is that sum; spent outputs add
\* nothing to it.
C14_BalanceIsSum ==
    /\ pc = "idle" =>
          /\ Balance(txos) = UnspentValue(txos)
          /\ Balance(txos)
                + InputValue(txos, Outpoints(txos) \ {r.out_point : r \in Unspent(txos)})
                = InputValue(txos, Outpoints(txos))
    /\ Done("balance") => result = "ok" /\ txos = txos0 /\ total = UnspentValue(txos)

\* The balance command has run on a ledger with a spent row and two unspent
\* rows.
C14_Witness ==
    /\ Done("balance")
    /\ Cardinality(Unspent(txos)) = 2
    /\ \E i \in DOMAIN txos : txos[i].spent

\* The outpoints of every output of every transaction the node has accepted.
NodeOutpoints ==
    UNION {{[txid |-> Txid(t), vout |-> i - 1] : i \in DOMAIN t.output} : t \in AcceptedTxs}

OutputsAt(op) ==
    {t.output[op.vout + 1] : t \in {x \in ChainTxs : Txid(x) = op.txid
                                                      /\ op.vout + 1 \in DOMAIN x.output}}

\* A row, or an item the scan is about to store, names by (txid, index) an
\* output of a transaction of the chain that pays the wallet's script and has
\* the row's value.
NamesOwned(r) ==
    /\ OutputsAt(r.out_point) # {}
    /\ \A o \in OutputsAt(r.out_point) :
          o.script_pubkey = script_pubkey /\ o.value = r.value

\* C16: a scan records an output if and only if its script is the wallet's:
\* every item the scan is about to store, and every row of every ledger a
\* command can find, names by (txid, index) an output of a transaction of
\* the chain that pays the wallet's script and has the row's value; no
\* output with another script is recorded; and after a scan that succeeds
\* every output of a fetched block that pays the wallet's script is a row.
C16_ScanSoundness ==
    /\ \A r \in Range(pending) : NamesOwned(r)
    /\ pc = "idle" =>
          /\ \A r \in Range(txos) : NamesOwned(r)
          /\ LET recorded == Outpoints(txos)
             IN \A t \in ChainTxs : \A i \in DOMAIN t.output :
                   t.output[i].script_pubkey # script_pubkey =>
                       [txid |-> Txid(t), vout |-> i - 1] \notin recorded
    /\ (Done("scan") /\ result = "ok") =>
          \A k \in DOMAIN fetched : \A t \in Range(chain[fetched[k]]) :
              \A i \in DOMAIN t.output :
                  t.output[i].script_pubkey = script_pubkey =>
                      \E n \in DOMAIN txos :
                          /\ txos[n].out_point = [txid |-> Txid(t), vout |-> i - 1]
                          /\ txos[n].value = t.output[i].value

\* A scan has fetched and stored a block with a transaction of the wallet:
\* its second output, the change, is a row and its first, the payment, is
\* not.
C16_Witness ==
    /\ Done("scan") /\ result = "ok"
    /\ \E k \in DOMAIN fetched : \E t \in Range(chain[fetched[k]]) \cap WalletTxs :
          /\ [txid |-> Txid(t), vout |-> 1] \in Outpoints(txos) \ Outpoints(txos0)
          /\ [txid |-> Txid(t), vout |-> 0] \notin Outpoints(txos)

\* C17: a send that finds no unspent output fails, whatever the amount: it
\* returns an error, nothing is broadcast and the ledger is as it was.
C17_EmptySetFails ==
    [][(pc = "idle" /\ cmd' = "send" /\ IterUnspent(txos) = <<>>)
       => (/\ pc' = "done"
           /\ result' \in {"not enough money", "invalid bitcoin address", "invalid amount"}
           /\ transaction' = NoTx
           /\ mempool' = mempool
           /\ txos' = txos
           /\ last_height' = last_height)]_vars

\* A send of amount 0 has failed on a ledger whose rows are all spent: the
\* fee alone is more than nothing.
C17_Witness ==
    /\ Done("send") /\ result = "not enough money"
    /\ txos0 # <<>> /\ IterUnspent(txos0) = <<>>
    /\ amount = 0 /\ fee > 0

\* The row of the ledger an input refers to.
RowOf(L, txin) == CHOOSE r \in Range(L) : r.out_point = txin.previous_output

\* Input i of a transaction carries one witness element, the signature over
\* the sighash of input i (index i - 1) with a list of previous outputs that
\* has an entry per input, the i-th with the value of the row input i refers
\* to and the wallet's script.
SignedAligned(t) ==
    \A i \in DOMAIN t.input :
        /\ Len(t.input[i].witness) = 1
        /\ t.input[i].witness[1].signs = i - 1
        /\ LET prevouts == t.input[i].witness[1].prevouts
           IN /\ Len(prevouts) = Len(t.input)
              /\ \A k \in DOMAIN t.input :
                    /\ Known(txos, t.input[k].previous_output)
                    /\ prevouts[k].value = RowOf(txos, t.input[k]).value
                    /\ prevouts[k].script_pubkey = script_pubkey

\* C18: in the transaction send has built, and in every transaction of the
\* wallet the node holds once the command has ended, every input is signed
\* over previous outputs aligned with the inputs; no input is broadcast
\* unsigned.
C18_SignedAligned ==
    /\ (cmd = "send" /\ transaction # NoTx) => SignedAligned(transaction)
    /\ pc = "idle" => \A t \in WalletTxs : SignedAligned(t)

\* The node has accepted a transaction of two inputs whose rows have
\* different values.
C18_Witness ==
    /\ cmd = "send" /\ transaction \in AcceptedTxs
    /\ Len(transaction.input) = 2
    /\ RowOf(txos, transaction.input[1]).value # RowOf(txos, transaction.input[2]).value

\* C19: a scan leaves every row it finds as it is, the spent flag included;
\* it only adds rows. A process that dies after the broadcast and before
\* the last set_spent leaves the ledger as it is, the rows not yet marked
\* unspent, and no step of a later scan marks them.
C19_ScanKeepsFlags ==
    [][/\ cmd' = "scan" =>
            \A i \in DOMAIN txos : i \in DOMAIN txos' /\ txos'[i] = txos[i]
       /\ (pc = "mark" /\ pc' = "idle") =>
            /\ txos' = txos
            /\ \A k \in DOMAIN todo : \E i \in DOMAIN txos' :
                  txos'[i].out_point = todo[k] /\ ~txos'[i].spent]_vars

\* A scan has gone over the block that holds a transaction of the wallet,
\* and a row that transaction spends is still unspent.
C19_Witness ==
    /\ Done("scan") /\ result = "ok"
    /\ \E k \in DOMAIN fetched : \E t \in Range(chain[fetched[k]]) \cap WalletTxs :
          \E i \in DOMAIN txos : txos[i].out_point \in Inputs(t) /\ ~txos[i].spent

\* C20: no step of a send adds a row or changes the watermark: the recorded
\* outpoints, their values and last_height are after a send, successful or
\* failed, what they were before it; a step that adds a row is a step of a
\* scan.
C20_SendWritesFlagsOnly ==
    [][/\ cmd' = "send" =>
            /\ Outpoints(txos') = Outpoints(txos)
            /\ Len(txos') = Len(txos)
            /\ \A i \in DOMAIN txos :
                  txos'[i].out_point = txos[i].out_point /\ txos'[i].value = txos[i].value
            /\ last_height' = last_height
       /\ (pc' = "done" /\ cmd' = "send") =>
            /\ Outpoints(txos') = Outpoints(txos0')
            /\ last_height' = last_height0'
       /\ Outpoints(txos') # Outpoints(txos) => cmd' = "scan"]_vars

\* A send with change has succeeded on a ledger that a scan has filled: the
\* change is an output of the accepted transaction and not a row.
C20_Witness ==
    /\ Done("send") /\ result = "ok"
    /\ last_height0 > 0
    /\ transaction.output[2].value > 0
    /\ [txid |-> Txid(transaction), vout |-> 1] \notin Outpoints(txos)
====
